---- MODULE Spec2Model ----
(***************************************************************************)
(* gpt-backend: a gateway that takes one "generate" request and forwards   *)
(* it to an upstream provider (OpenAI, Gemini, Grok/xAI, a flow webhook).  *)
(* The repository holds several generations of the same server; every      *)
(* route of every generation is modelled as its own handler.               *)
(*                                                                         *)
(* Strings are TLA+ strings, except the prompt, which is a sequence of     *)
(* characters so that String.prototype.trim is computed.  An absent        *)
(* (undefined) number is 0 and an absent string is "".                     *)
(***************************************************************************)
EXTENDS Integers, Sequences, FiniteSets, TLC

VARIABLES
    env,        \* process.env: variable name -> value ("" = not set)
    req,        \* the inbound request being handled
    pc,         \* handler position: "idle" | "await" | "done"
    stage,      \* the upstream call the handler awaits ("" = none)
    upstream,   \* upstream calls issued for the current request
    res,        \* the response written for the current request
    last,       \* the outcome of the latest upstream call of this request
    retries,    \* callOpenAIWithRetry / callWithRetry: the retries parameter
    i,          \* ... the loop counter
    invoked,    \* ... number of makeCall() invocations
    slept,      \* ... the sleep(ms) calls made, in order
    raised,     \* ... the errors makeCall() threw, in order
    rpc,        \* ... "idle" | "calling" | "sleeping" | "returned" | "thrown"
    result,     \* ... what the call returned or threw
    sent,       \* how many times the handler wrote a response for this request
    server,     \* the program that is running: "gateway" | "proxy" | "lib"
    now,        \* Date.now() of the proxy process, in ms since it started
    hits,       \* the proxy's rate-limit Map: caller -> {count, ts}
    admitted,   \* per caller, the requests rateLimit let through, by half-window (SpecLimiter)
    arg,        \* the argument a helper function was called with
    ret,        \* what that helper returned
    calls,      \* retry calls in flight together: call -> its locals
    conns,      \* the proxy's requests in flight together, by handler position
    aborted     \* the caller closed the inbound connection: upstream calls so far

vars == <<env, req, pc, stage, upstream, res, last,
          retries, i, invoked, slept, raised, rpc, result,
          sent, server, now, hits, admitted, arg, ret, calls, conns, aborted>>

gatewayVars == <<env, req, pc, stage, upstream, res, last, sent>>
retryVars == <<retries, i, invoked, slept, raised, rpc, result>>
limiterVars == <<now, hits, admitted>>
helperVars == <<arg, ret>>
concVars == <<calls, conns, aborted>>

\* what the handlers of the express servers never touch
restVars == <<server, limiterVars, helperVars, concVars>>

----------------------------------------------------------------------------
(* Bounds *)

MaxRetries == 3
MaxPromptLen == 2

\* callOpenAIWithRetry(makeCall, retries = 2)
DefaultRetries == 2

----------------------------------------------------------------------------
(* Errors: a thrown JS error with its optional status, response.status and *)
(* message.                                                                *)

Err(status, rstatus, message) ==
    [status |-> status, rstatus |-> rstatus, message |-> message]

NoErr == Err(0, 0, "")

\* const status = err?.status || err?.response?.status;
EffStatus(err) == IF err.status # 0 THEN err.status ELSE err.rstatus

RECURSIVE Pow2(_)
Pow2(n) == IF n = 0 THEN 1 ELSE 2 * Pow2(n - 1)

\* sleep(1000 * Math.pow(2, i))
BackoffBug(n) == 2000 * Pow2(n)
Backoff(n) == 1000 * Pow2(n)

\* if(status === 429 && i < retries)
ShouldRetryLate(err, n, max) == EffStatus(err) = 429 /\ n <= max
ShouldRetryBug(err, n, max) == EffStatus(err) >= 429 /\ n < max
ShouldRetry(err, n, max) == EffStatus(err) = 429 /\ n < max

\* throw err;   (the error caught in this iteration)
ThrownBug(errs) == errs[1]
Thrown(errs) == errs[Len(errs)]

Returned(v) == [ok |-> TRUE, value |-> v, err |-> NoErr]
Failed(err) == [ok |-> FALSE, value |-> "", err |-> err]
NoResult == [ok |-> FALSE, value |-> "", err |-> NoErr]

----------------------------------------------------------------------------
(* callOpenAIWithRetry(makeCall, retries) / callWithRetry(makeCall, retries) *)

\* let lastErr; for(let i=0; ...){ try{ return await makeCall(); ...
RetryBegin(max) ==
    /\ retries' = max
    /\ i' = 0
    /\ invoked' = 1
    /\ slept' = <<>>
    /\ raised' = <<>>
    /\ rpc' = "calling"
    /\ result' = NoResult

\* return await makeCall();   (makeCall resolved with v)
RetryReturn(v) ==
    /\ rpc' = "returned"
    /\ result' = Returned(v)
    /\ UNCHANGED <<retries, i, invoked, slept, raised>>

\* catch(err){ lastErr = err; ... sleep and continue, or throw err }
RetryCatch(err) ==
    /\ raised' = Append(raised, err)
    /\ IF ShouldRetry(err, i, retries)
       THEN /\ slept' = Append(slept, Backoff(i))
            /\ rpc' = "sleeping"
            /\ result' = result
       ELSE /\ slept' = slept
            /\ rpc' = "thrown"
            /\ result' = Failed(Thrown(raised'))
    /\ UNCHANGED <<retries, i, invoked>>

\* the sleep elapsed: continue; i++; i<=retries ? next makeCall() : throw lastErr
RetryResume ==
    /\ i' = i + 1
    /\ IF i + 1 <= retries
       THEN /\ invoked' = invoked + 1
            /\ rpc' = "calling"
            /\ result' = result
       ELSE /\ invoked' = invoked
            /\ rpc' = "thrown"
            /\ result' = Failed(raised[Len(raised)])
    /\ UNCHANGED <<retries, slept, raised>>

RetryIdle ==
    /\ retries = 0 /\ i = 0 /\ invoked = 0 /\ slept = <<>> /\ raised = <<>>
    /\ rpc = "idle" /\ result = NoResult

----------------------------------------------------------------------------
(* The gateway: configuration, requests, upstream outcomes.                *)

EnvNames ==
    {"OPENAI_API_KEY", "GOOGLE_API_KEY", "XAI_API_KEY",
     "GEMINI_API_KEY", "GROK_API_KEY", "FLOW_API_URL"}

\* the value a configured variable holds: one distinct secret per variable
Secret(n) ==
    CASE n = "OPENAI_API_KEY" -> "sk-openai"
      [] n = "GOOGLE_API_KEY" -> "AIza-google"
      [] n = "XAI_API_KEY"    -> "xai-key"
      [] n = "GEMINI_API_KEY" -> "AIza-gemini"
      [] n = "GROK_API_KEY"   -> "xai-grok"
      [] n = "FLOW_API_URL"   -> "http://flow/prediction"

\* process environments: everything set, exactly one variable unset, nothing set
EnvConfigs ==
    { [n \in EnvNames |-> IF n \in unset THEN "" ELSE Secret(n)] :
        unset \in {{}} \cup {{n} : n \in EnvNames} \cup {EnvNames} }

Chars == {" ", "p"}

RECURSIVE SeqsUpTo(_, _)
SeqsUpTo(S, n) ==
    IF n = 0 THEN {<<>>}
    ELSE LET shorter == SeqsUpTo(S, n - 1)
         IN shorter \cup { Append(q, c) : q \in shorter, c \in S }

\* req.body.soraPrompt / req.body.user as typed by the caller
Prompts == SeqsUpTo(Chars, MaxPromptLen)

\* req.body.provider as typed by the caller ("" = field absent)
ProviderInputs == {"", "openai", "google", "gemini", "grok", "flow", "OpenAI", "dalle"}

\* req.body.apiKey as typed by the caller ("" = field absent)
ClientKeys == {"", "sk-client"}

\* String.prototype.toLowerCase on the provider inputs
toLowerCase(p) == IF p = "OpenAI" THEN "openai" ELSE p

\* white space, as \s and String.prototype.trim see it
IsSpace(c) == c \in {" ", "\n", "\t"}

\* String.prototype.trim
RECURSIVE TrimStart(_)
TrimStart(q) == IF q # <<>> /\ IsSpace(Head(q)) THEN TrimStart(Tail(q)) ELSE q

RECURSIVE TrimEnd(_)
TrimEnd(q) ==
    IF q # <<>> /\ IsSpace(q[Len(q)]) THEN TrimEnd(SubSeq(q, 1, Len(q) - 1)) ELSE q

trim(q) == TrimEnd(TrimStart(q))

\* model output texts: " " is whitespace, "x" prose, "1" a JSON document
\* (the number 1)
Texts == {<<>>, <<" ">>, <<"x">>, <<"1">>, <<"1", " ">>}

\* JSON values: numbers written with the digit 1, strings without escapes,
\* arrays and objects.  One shape for every value: t the type, s the digits or
\* the characters, c the elements (of an array) or the members (of an object).
JNone == [t |-> "none", s |-> <<>>, c |-> <<>>]
JNum(d) == [t |-> "num", s |-> d, c |-> <<>>]
JStr(x) == [t |-> "str", s |-> x, c |-> <<>>]
JArr(vs) == [t |-> "arr", s |-> <<>>, c |-> vs]
JMember(k, v) == [t |-> "member", s |-> k, c |-> <<v>>]
JObj(ms) == [t |-> "obj", s |-> <<>>, c |-> ms]

Quote == "\""

ParseFail == [ok |-> FALSE, val |-> JNone, next |-> 0]
Parsed(v, n) == [ok |-> TRUE, val |-> v, next |-> n]

RECURSIVE SkipWs(_, _)
SkipWs(q, p) == IF p <= Len(q) /\ IsSpace(q[p]) THEN SkipWs(q, p + 1) ELSE p

\* the position after the run of digits that starts at p
RECURSIVE DigitsEnd(_, _)
DigitsEnd(q, p) == IF p <= Len(q) /\ q[p] = "1" THEN DigitsEnd(q, p + 1) ELSE p

\* the position of the first c at or after p, 0 when there is none
RECURSIVE IndexFrom(_, _, _)
IndexFrom(q, c, p) ==
    IF p > Len(q) THEN 0 ELSE IF q[p] = c THEN p ELSE IndexFrom(q, c, p + 1)

\* a string literal whose opening quote is at p
ParseString(q, p) ==
    LET e == IndexFrom(q, Quote, p + 1)
    IN IF e = 0 THEN ParseFail ELSE Parsed(JStr(SubSeq(q, p + 1, e - 1)), e + 1)

RECURSIVE ParseValue(_, _)
RECURSIVE ParseElems(_, _, _)
RECURSIVE ParseMembers(_, _, _)

\* value, after "[" or a ",": the rest of the array
ParseElems(q, p0, acc) ==
    LET r == ParseValue(q, p0)
        p == SkipWs(q, r.next)
    IN IF ~r.ok \/ p > Len(q) THEN ParseFail
       ELSE IF q[p] = "," THEN ParseElems(q, p + 1, Append(acc, r.val))
       ELSE IF q[p] = "]" THEN Parsed(JArr(Append(acc, r.val)), p + 1)
       ELSE ParseFail

\* "key" : value, after "{" or a ",": the rest of the object
ParseMembers(q, p0, acc) ==
    LET p == SkipWs(q, p0) IN
    IF p > Len(q) \/ q[p] # Quote THEN ParseFail
    ELSE LET k == ParseString(q, p)
             p1 == SkipWs(q, k.next)
         IN IF ~k.ok \/ p1 > Len(q) \/ q[p1] # ":" THEN ParseFail
            ELSE LET r == ParseValue(q, p1 + 1)
                     p2 == SkipWs(q, r.next)
                     ms == Append(acc, JMember(k.val.s, r.val))
                 IN IF ~r.ok \/ p2 > Len(q) THEN ParseFail
                    ELSE IF q[p2] = "," THEN ParseMembers(q, p2 + 1, ms)
                    ELSE IF q[p2] = "}" THEN Parsed(JObj(ms), p2 + 1)
                    ELSE ParseFail

ParseValue(q, p0) ==
    LET p == SkipWs(q, p0) IN
    IF p > Len(q) THEN ParseFail
    ELSE IF q[p] = "1" THEN Parsed(JNum(SubSeq(q, p, DigitsEnd(q, p) - 1)), DigitsEnd(q, p))
    ELSE IF q[p] = Quote THEN ParseString(q, p)
    ELSE IF q[p] = "["
    THEN IF SkipWs(q, p + 1) <= Len(q) /\ q[SkipWs(q, p + 1)] = "]"
         THEN Parsed(JArr(<<>>), SkipWs(q, p + 1) + 1)
         ELSE ParseElems(q, p + 1, <<>>)
    ELSE IF q[p] = "{"
    THEN IF SkipWs(q, p + 1) <= Len(q) /\ q[SkipWs(q, p + 1)] = "}"
         THEN Parsed(JObj(<<>>), SkipWs(q, p + 1) + 1)
         ELSE ParseMembers(q, p + 1, <<>>)
    ELSE ParseFail

\* JSON.parse(q): one value, white space around it, nothing else
JSONparse(q) ==
    LET r == ParseValue(q, 1)
    IN IF r.ok /\ SkipWs(q, r.next) > Len(q) THEN r ELSE ParseFail

\* JSON.parse does not throw
JSONParses(q) == JSONparse(q).ok

RECURSIVE stringify(_)
RECURSIVE stringifyAll(_)

\* the values of vs, serialized and separated by commas
stringifyAll(vs) ==
    IF vs = <<>> THEN <<>>
    ELSE IF Len(vs) = 1 THEN stringify(vs[1])
    ELSE stringify(vs[1]) \o <<",">> \o stringifyAll(Tail(vs))

\* JSON.stringify(v)
stringify(v) ==
    CASE v.t = "num" -> v.s
      [] v.t = "str" -> <<Quote>> \o v.s \o <<Quote>>
      [] v.t = "arr" -> <<"[">> \o stringifyAll(v.c) \o <<"]">>
      [] v.t = "obj" -> <<"{">> \o stringifyAll(v.c) \o <<"}">>
      [] v.t = "member" -> <<Quote>> \o v.s \o <<Quote, ":">> \o stringify(v.c[1])

\* What the upstream did with one HTTP request.
\*   k: "net" (no response: DNS, socket, abort) or "http"
\*   json: the body parses as JSON;  emsg: body.error.message
\*   text: the text the provider's success body carries;  b64: data[0].b64_json
Outcome(k, status, json, emsg, text, b64) ==
    [k |-> k, status |-> status, json |-> json, emsg |-> emsg,
     text |-> text, b64 |-> b64]

NoOutcome == Outcome("", 0, FALSE, "", <<>>, "")

UpstreamStatuses == {401, 429}

Outcomes ==
    {Outcome("net", 0, FALSE, "", <<>>, "")}
    \cup {Outcome("http", 200, TRUE, "", t, "iVBOR") : t \in Texts}
    \cup {Outcome("http", 200, TRUE, "", <<>>, ""),
          Outcome("http", 200, FALSE, "", <<>>, "")}
    \cup {Outcome("http", s, TRUE, m, <<>>, "") :
            s \in UpstreamStatuses, m \in {"", "quota exceeded"}}
    \cup {Outcome("http", s, FALSE, "", <<>>, "") : s \in UpstreamStatuses}

\* r.ok
Ok(o) == o.status >= 200 /\ o.status <= 299

\* An upstream call made through a provider SDK (openai, @google/generative-ai):
\* the SDK resolves with the parsed body on 2xx and rejects with an error that
\* carries the HTTP status otherwise; no response or an unparsable body rejects
\* with an error that has no status.
Sdk(o) ==
    IF o.k = "net" THEN [threw |-> TRUE, err |-> Err(0, 0, "Connection error.")]
    ELSE IF ~Ok(o)
         THEN [threw |-> TRUE,
               err |-> Err(o.status, 0, IF o.emsg # "" THEN o.emsg ELSE "status code (no body)")]
    ELSE IF ~o.json THEN [threw |-> TRUE, err |-> Err(0, 0, "Unexpected token")]
    ELSE [threw |-> FALSE, err |-> NoErr]

\* fetch(): rejects only when there is no response
Fetch(o) ==
    IF o.k = "net" THEN [threw |-> TRUE, err |-> Err(0, 0, "fetch failed")]
    ELSE [threw |-> FALSE, err |-> NoErr]

\* the message of the status-less Error thrown by `await r.json()` on a bad body
SyntaxErr == Err(0, 0, "Unexpected token")

Request(ep, provider, prompt, img1, apiKey) ==
    [ep |-> ep, provider |-> provider, prompt |-> prompt, img1 |-> img1,
     apiKey |-> apiKey]

\* res.status(status).json({ success, error, ... })
Response(status, kind, error, text, b64) ==
    [status |-> status, kind |-> kind, error |-> error, text |-> text, b64 |-> b64]

\* res.status(s).json({ success:false, error })
Failure(status, error) == Response(status, "error", error, <<>>, "")

UpstreamCall(to, key) == [to |-> to, key |-> key]

\* no request in hand, nothing written to res
NoReq == Request("", "", <<>>, FALSE, "")
NoRes == Response(0, "", "", <<>>, "")

\* the callers the proxy tells apart (x-forwarded-for / remoteAddress); the
\* Map keeps one entry per caller and rateLimit reads and writes only the
\* entry of the caller at hand
Callers == {"10.0.0.1"}

\* hits.get(ip) of a caller the Map has no entry for
NoHit == [has |-> FALSE, count |-> 0, ts |-> 0]

\* const hits = new Map();   Date.now() counted from the start of the process
LimiterIdle ==
    /\ now = 0
    /\ hits = [ip \in Callers |-> NoHit]
    /\ admitted = [ip \in Callers |-> <<0, 0>>]

\* what a helper was called with: the parts of a Gemini answer, or a model
\* text together with the JSON value it was written from
NoArg ==
    [of |-> "", parts |-> <<>>, v |-> JNone, wrap |-> "", pad |-> "", text |-> <<>>,
     j |-> <<>>]

\* what it returned: the text, and the parsed value when there is one
NoRet == [fn |-> "", ok |-> FALSE, raw |-> <<>>, val |-> JNone]

\* no helper function has been called
HelperIdle == arg = NoArg /\ ret = NoRet

\* bounds of the concurrent runs
MaxCalls == 2
MaxInFlight == 3

\* the calls of callWithRetry that are in flight at the same time
CallIds == 1..MaxCalls

\* a call of callWithRetry that has not been made
NoCall ==
    [retries |-> 0, i |-> 0, invoked |-> 0, slept |-> <<>>, raised |-> <<>>,
     rpc |-> "idle", result |-> NoResult, events |-> <<>>]

NoConns == [reading |-> 0, calling |-> 0, answered |-> 0, rejected |-> 0]

NotAborted == 0 - 1

\* one request at a time, no connection closed by its caller
ConcIdle ==
    /\ calls = [c \in CallIds |-> NoCall]
    /\ conns = [ip \in Callers |-> NoConns]
    /\ aborted = NotAborted

GatewayIdle ==
    /\ req = NoReq /\ pc = "idle" /\ stage = "" /\ upstream = <<>> /\ res = NoRes
    /\ last = NoOutcome /\ sent = 0

RetryReset ==
    /\ retries' = 0 /\ i' = 0 /\ invoked' = 0 /\ slept' = <<>> /\ raised' = <<>>
    /\ rpc' = "idle" /\ result' = NoResult

\* the handler answers before any await
Reject(r, response) ==
    /\ req' = r
    /\ res' = response
    /\ pc' = "done"
    /\ sent' = 1
    /\ stage' = ""
    /\ upstream' = <<>>
    /\ last' = NoOutcome
    /\ RetryReset
    /\ UNCHANGED <<env, restVars>>

\* the handler issues its first upstream call inside callOpenAIWithRetry
BeginWithRetry(r, s, call) ==
    /\ req' = r
    /\ res' = NoRes
    /\ pc' = "await"
    /\ stage' = s
    /\ upstream' = <<call>>
    /\ last' = NoOutcome
    /\ sent' = 0
    /\ RetryBegin(DefaultRetries)
    /\ UNCHANGED <<env, restVars>>

\* the handler issues its first upstream call directly
BeginDirect(r, s, call) ==
    /\ req' = r
    /\ res' = NoRes
    /\ pc' = "await"
    /\ stage' = s
    /\ upstream' = <<call>>
    /\ last' = NoOutcome
    /\ sent' = 0
    /\ RetryReset
    /\ UNCHANGED <<env, restVars>>

\* a handler that returns after an await without writing its response
RespondBug(response) ==
    /\ res' = NoRes
    /\ sent' = sent
    /\ pc' = "done"
    /\ stage' = ""
    /\ UNCHANGED <<env, req, upstream, restVars>>

\* the handler answers after an await; the retry state is set by the caller
Respond(response) ==
    /\ res' = response
    /\ sent' = sent + 1
    /\ pc' = "done"
    /\ stage' = ""
    /\ UNCHANGED <<env, req, upstream, restVars>>

\* the call is retried after its backoff: the handler stays where it is
StillAwaiting ==
    /\ UNCHANGED <<env, req, pc, stage, upstream, res, sent, restVars>>

----------------------------------------------------------------------------
(* catch blocks of the handlers                                            *)

OrDefault(v, d) == IF v # 0 THEN v ELSE d

RateLimitHint == "OpenAI rate limit / quota reached (HTTP 429). Check billing/limits."

\* const status = err?.status || err?.response?.status || 500;
\* if(status === 429) message = "OpenAI rate limit ...";
CatchWithHint(err) ==
    LET status == OrDefault(EffStatus(err), 500)
    IN Failure(status, IF status = 429 THEN RateLimitHint ELSE err.message)

\* const status = err?.status || 500;  error: err?.message
CatchStatus(err) == Failure(OrDefault(err.status, 500), err.message)

\* return res.status(500).json({ error: err?.message || String(err) });
Catch500(err) == Failure(500, err.message)

OpenAIKey == env["OPENAI_API_KEY"]

\* if(!soraPrompt)   with soraPrompt = String(req.body?.soraPrompt || "").trim()
MissingPrompt(r) == trim(r.prompt) = <<>>

\* if(!img1)   with img1 = req.files?.img1?.[0] || null
MissingImageBug(r) == FALSE
MissingImage(r) == ~r.img1

----------------------------------------------------------------------------
(* POST /api/generate-gpt-prompt, OpenAI only, empty answers refused        *)
(* (part_000; the same handler is in part_001 and at the top of part_002)  *)

generateGptPrompt ==
    /\ pc = "idle"
    /\ \E prompt \in Prompts, apiKey \in ClientKeys :
         LET r == Request("gpt-prompt", "", prompt, FALSE, apiKey) IN
         IF OpenAIKey = ""
         THEN Reject(r, Failure(500, "Missing OPENAI_API_KEY"))
         ELSE IF MissingPrompt(r)
         THEN Reject(r, Failure(400, "Missing soraPrompt"))
         ELSE BeginWithRetry(r, "responses", UpstreamCall("api.openai.com", OpenAIKey))

generateGptPromptSettled ==
    /\ pc = "await" /\ req.ep = "gpt-prompt" /\ rpc = "calling"
    /\ \E o \in Outcomes :
         /\ last' = o
         /\ IF Sdk(o).threw
            THEN /\ RetryCatch(Sdk(o).err)
                 /\ IF rpc' = "thrown"
                    THEN Respond(CatchWithHint(result'.err))
                    ELSE StillAwaiting
            ELSE /\ RetryReturn("response")
                 /\ IF trim(o.text) = <<>>
                    THEN Respond(Failure(502, "Empty response from model"))
                    ELSE Respond(Response(200, "text", "", trim(o.text), ""))

----------------------------------------------------------------------------
(* POST /api/generate-gpt-prompt, OpenAI only, any answer returned          *)
(* (part_003; the same handler is in server.js)                            *)

generateGptPromptBasic ==
    /\ pc = "idle"
    /\ \E prompt \in Prompts, apiKey \in ClientKeys :
         LET r == Request("gpt-prompt-basic", "", prompt, FALSE, apiKey) IN
         IF OpenAIKey = ""
         THEN Reject(r, Failure(500, "Missing OPENAI_API_KEY"))
         ELSE IF MissingPrompt(r)
         THEN Reject(r, Failure(400, "Missing soraPrompt"))
         ELSE BeginWithRetry(r, "responses", UpstreamCall("api.openai.com", OpenAIKey))

generateGptPromptBasicSettled ==
    /\ pc = "await" /\ req.ep = "gpt-prompt-basic" /\ rpc = "calling"
    /\ \E o \in Outcomes :
         /\ last' = o
         /\ IF Sdk(o).threw
            THEN /\ RetryCatch(Sdk(o).err)
                 /\ IF rpc' = "thrown"
                    THEN Respond(CatchStatus(result'.err))
                    ELSE StillAwaiting
            ELSE /\ RetryReturn("response")
                 /\ Respond(Response(200, "text", "", trim(o.text), ""))

----------------------------------------------------------------------------
(* POST /api/generate-image, vision analysis then image generation          *)
(* (part_000; the same handler is in part_001)                             *)

\* the same handler making its checks in the order prompt, image, credential
generateImageVisionBug ==
    /\ pc = "idle"
    /\ \E prompt \in Prompts, img1 \in BOOLEAN, apiKey \in ClientKeys :
         LET r == Request("image-vision", "", prompt, img1, apiKey) IN
         IF MissingPrompt(r)
         THEN Reject(r, Failure(400, "Missing soraPrompt"))
         ELSE IF MissingImage(r)
         THEN Reject(r, Failure(400, "Missing img1 (product reference image)"))
         ELSE IF OpenAIKey = ""
         THEN Reject(r, Failure(500, "Missing OPENAI_API_KEY"))
         ELSE BeginWithRetry(r, "vision", UpstreamCall("api.openai.com", OpenAIKey))

generateImageVision ==
    /\ pc = "idle"
    /\ \E prompt \in Prompts, img1 \in BOOLEAN, apiKey \in ClientKeys :
         LET r == Request("image-vision", "", prompt, img1, apiKey) IN
         IF OpenAIKey = ""
         THEN Reject(r, Failure(500, "Missing OPENAI_API_KEY"))
         ELSE IF MissingPrompt(r)
         THEN Reject(r, Failure(400, "Missing soraPrompt"))
         ELSE IF MissingImage(r)
         THEN Reject(r, Failure(400, "Missing img1 (product reference image)"))
         ELSE BeginWithRetry(r, "vision", UpstreamCall("api.openai.com", OpenAIKey))

\* the same step going on to images.generate whatever the description holds
generateImageVisionSettledBug ==
    /\ pc = "await" /\ req.ep = "image-vision" /\ stage = "vision" /\ rpc = "calling"
    /\ \E o \in Outcomes :
         /\ last' = o
         /\ IF Sdk(o).threw
            THEN /\ RetryCatch(Sdk(o).err)
                 /\ IF rpc' = "thrown"
                    THEN Respond(CatchWithHint(result'.err))
                    ELSE StillAwaiting
            ELSE /\ RetryBegin(DefaultRetries)
                 /\ stage' = "images"
                 /\ upstream' = Append(upstream, UpstreamCall("api.openai.com", OpenAIKey))
                 /\ UNCHANGED <<env, req, pc, res, sent, restVars>>

\* visionResp settled: productDesc, then the images.generate call begins
generateImageVisionSettled ==
    /\ pc = "await" /\ req.ep = "image-vision" /\ stage = "vision" /\ rpc = "calling"
    /\ \E o \in Outcomes :
         /\ last' = o
         /\ IF Sdk(o).threw
            THEN /\ RetryCatch(Sdk(o).err)
                 /\ IF rpc' = "thrown"
                    THEN Respond(CatchWithHint(result'.err))
                    ELSE StillAwaiting
            ELSE IF trim(o.text) = <<>>
            THEN /\ RetryReturn("response")
                 /\ Respond(Failure(502, "Vision analysis returned empty"))
            ELSE /\ RetryBegin(DefaultRetries)
                 /\ stage' = "images"
                 /\ upstream' = Append(upstream, UpstreamCall("api.openai.com", OpenAIKey))
                 /\ UNCHANGED <<env, req, pc, res, sent, restVars>>

\* the same step answering success whatever data[0].b64_json holds
generateImageVisionImageSettledBug ==
    /\ pc = "await" /\ req.ep = "image-vision" /\ stage = "images" /\ rpc = "calling"
    /\ \E o \in Outcomes :
         /\ last' = o
         /\ IF Sdk(o).threw
            THEN /\ RetryCatch(Sdk(o).err)
                 /\ IF rpc' = "thrown"
                    THEN Respond(CatchWithHint(result'.err))
                    ELSE StillAwaiting
            ELSE /\ RetryReturn("response")
                 /\ Respond(Response(200, "image", "", <<>>, o.b64))

generateImageVisionImageSettled ==
    /\ pc = "await" /\ req.ep = "image-vision" /\ stage = "images" /\ rpc = "calling"
    /\ \E o \in Outcomes :
         /\ last' = o
         /\ IF Sdk(o).threw
            THEN /\ RetryCatch(Sdk(o).err)
                 /\ IF rpc' = "thrown"
                    THEN Respond(CatchWithHint(result'.err))
                    ELSE StillAwaiting
            ELSE /\ RetryReturn("response")
                 /\ IF o.b64 = ""
                    THEN Respond(Failure(502, "No base64 image returned from image model"))
                    ELSE Respond(Response(200, "image", "", <<>>, o.b64))

----------------------------------------------------------------------------
(* POST /api/generate-image, one images.generate call                       *)
(* (part_003; the same handler is in server.js)                            *)

generateImageBasic ==
    /\ pc = "idle"
    /\ \E prompt \in Prompts, img1 \in BOOLEAN, apiKey \in ClientKeys :
         LET r == Request("image-basic", "", prompt, img1, apiKey) IN
         IF OpenAIKey = ""
         THEN Reject(r, Failure(500, "Missing OPENAI_API_KEY"))
         ELSE IF MissingPrompt(r)
         THEN Reject(r, Failure(400, "Missing soraPrompt"))
         ELSE IF MissingImage(r)
         THEN Reject(r, Failure(400, "Missing img1"))
         ELSE BeginWithRetry(r, "images", UpstreamCall("api.openai.com", OpenAIKey))

generateImageBasicSettled ==
    /\ pc = "await" /\ req.ep = "image-basic" /\ rpc = "calling"
    /\ \E o \in Outcomes :
         /\ last' = o
         /\ IF Sdk(o).threw
            THEN /\ RetryCatch(Sdk(o).err)
                 /\ IF rpc' = "thrown"
                    THEN Respond(CatchStatus(result'.err))
                    ELSE StillAwaiting
            ELSE /\ RetryReturn("response")
                 /\ IF o.b64 = ""
                    THEN Respond(Failure(502, "Empty image result"))
                    ELSE Respond(Response(200, "image", "", <<>>, o.b64))

----------------------------------------------------------------------------
(* POST /api/generate-image through /v1/images/edits (part_002, first server) *)

generateImageEdit ==
    /\ pc = "idle"
    /\ \E prompt \in Prompts, img1 \in BOOLEAN, apiKey \in ClientKeys :
         LET r == Request("image-edit", "", prompt, img1, apiKey) IN
         IF OpenAIKey = ""
         THEN Reject(r, Failure(500, "Missing OPENAI_API_KEY"))
         ELSE IF MissingPrompt(r)
         THEN Reject(r, Failure(400, "Missing soraPrompt"))
         ELSE IF MissingImage(r)
         THEN Reject(r, Failure(400, "Missing img1 (product reference image)"))
         ELSE BeginDirect(r, "edits", UpstreamCall("api.openai.com", OpenAIKey))

generateImageEditSettled ==
    /\ pc = "await" /\ req.ep = "image-edit"
    /\ \E o \in Outcomes :
         /\ last' = o
         /\ IF Fetch(o).threw
            THEN Respond(CatchStatus(Fetch(o).err))
            ELSE IF ~Ok(o)
            THEN Respond(Failure(o.status, IF o.emsg # "" THEN o.emsg ELSE "OpenAI error"))
            ELSE IF ~o.json
            THEN Respond(CatchStatus(SyntaxErr))
            ELSE IF o.b64 = ""
            THEN Respond(Failure(502, "No image returned from OpenAI"))
            ELSE Respond(Response(200, "image", "", <<>>, o.b64))
    /\ UNCHANGED retryVars

----------------------------------------------------------------------------
(* POST /api/generate-gpt-prompt, multi-provider (part_002, second server)  *)

\* String(req.body?.provider || "openai").trim().toLowerCase()
providerOrOpenAI(r) == IF r.provider = "" THEN "openai" ELSE toLowerCase(r.provider)

generateGptPromptMulti ==
    /\ pc = "idle"
    /\ \E provider \in ProviderInputs, prompt \in Prompts, apiKey \in ClientKeys :
         LET r == Request("gpt-prompt-multi", provider, prompt, FALSE, apiKey)
             P == providerOrOpenAI(r)
         IN
         IF MissingPrompt(r)
         THEN Reject(r, Failure(400, "Missing soraPrompt"))
         ELSE IF P = "openai"
         THEN IF OpenAIKey = ""
              THEN Reject(r, Failure(500, "Missing OPENAI_API_KEY"))
              ELSE BeginWithRetry(r, "responses", UpstreamCall("api.openai.com", OpenAIKey))
         ELSE IF P = "gemini"
         THEN IF env["GEMINI_API_KEY"] = ""
              THEN Reject(r, Failure(500, "Missing GEMINI_API_KEY"))
              ELSE BeginWithRetry(r, "gemini",
                       UpstreamCall("generativelanguage.googleapis.com", env["GEMINI_API_KEY"]))
         ELSE IF P = "grok"
         THEN IF env["GROK_API_KEY"] = ""
              THEN Reject(r, Failure(500, "Missing GROK_API_KEY"))
              ELSE BeginWithRetry(r, "grok", UpstreamCall("api.x.ai", env["GROK_API_KEY"]))
         ELSE IF P = "flow"
         THEN IF env["FLOW_API_URL"] = ""
              THEN Reject(r, Failure(500, "Missing FLOW_API_URL"))
              ELSE BeginWithRetry(r, "flow", UpstreamCall(env["FLOW_API_URL"], ""))
         ELSE Reject(r, Failure(400, "Unknown provider"))

\* if(!text) 502, else { success:true, prompt: text }
MultiAnswer(text) ==
    IF text = <<>>
    THEN Failure(502, "Empty response from provider")
    ELSE Response(200, "text", "", text, "")

\* the openai and gemini branches: SDK calls inside callWithRetry
generateGptPromptMultiSdkSettled ==
    /\ pc = "await" /\ req.ep = "gpt-prompt-multi" /\ rpc = "calling"
    /\ stage \in {"responses", "gemini"}
    /\ \E o \in Outcomes :
         /\ last' = o
         /\ IF Sdk(o).threw
            THEN /\ RetryCatch(Sdk(o).err)
                 /\ IF rpc' = "thrown"
                    THEN Respond(CatchStatus(result'.err))
                    ELSE StillAwaiting
            ELSE /\ RetryReturn("response")
                 /\ Respond(MultiAnswer(trim(o.text)))

\* the grok and flow branches: fetch() inside callWithRetry, then r.json()
generateGptPromptMultiFetchSettled ==
    /\ pc = "await" /\ req.ep = "gpt-prompt-multi" /\ rpc = "calling"
    /\ stage \in {"grok", "flow"}
    /\ \E o \in Outcomes :
         /\ last' = o
         /\ IF Fetch(o).threw
            THEN /\ RetryCatch(Fetch(o).err)
                 /\ IF rpc' = "thrown"
                    THEN Respond(CatchStatus(result'.err))
                    ELSE StillAwaiting
            ELSE /\ RetryReturn("response")
                 /\ IF ~o.json
                    THEN Respond(CatchStatus(SyntaxErr))
                    ELSE Respond(MultiAnswer(trim(o.text)))

----------------------------------------------------------------------------
(* POST /api/generate-image, multi-provider server (part_002, second server) *)

generateImageMulti ==
    /\ pc = "idle"
    /\ \E provider \in ProviderInputs, prompt \in Prompts, img1 \in BOOLEAN,
          apiKey \in ClientKeys :
         LET r == Request("image-multi", provider, prompt, img1, apiKey) IN
         IF providerOrOpenAI(r) # "openai"
         THEN Reject(r, Failure(400, "Image generation currently supports OpenAI only"))
         ELSE IF OpenAIKey = ""
         THEN Reject(r, Failure(500, "Missing OPENAI_API_KEY"))
         ELSE IF MissingPrompt(r)
         THEN Reject(r, Failure(400, "Missing soraPrompt"))
         ELSE IF MissingImage(r)
         THEN Reject(r, Failure(400, "Missing img1"))
         ELSE BeginWithRetry(r, "images", UpstreamCall("api.openai.com", OpenAIKey))

generateImageMultiSettled ==
    /\ pc = "await" /\ req.ep = "image-multi" /\ rpc = "calling"
    /\ \E o \in Outcomes :
         /\ last' = o
         /\ IF Sdk(o).threw
            THEN /\ RetryCatch(Sdk(o).err)
                 /\ IF rpc' = "thrown"
                    THEN Respond(CatchStatus(result'.err))
                    ELSE StillAwaiting
            ELSE /\ RetryReturn("response")
                 /\ IF o.b64 = ""
                    THEN Respond(Failure(502, "Empty image result"))
                    ELSE Respond(Response(200, "image", "", <<>>, o.b64))

----------------------------------------------------------------------------
(* POST /api/generate with the caller's apiKey (part_003, server2)          *)

\* adapters that all post to the OpenAI endpoint
ProviderHostOneEndpoint(P) == "api.openai.com"

ProviderHost(P) ==
    CASE P = "openai" -> "api.openai.com"
      [] P = "google" -> "generativelanguage.googleapis.com"
      [] P = "grok"   -> "api.x.ai"

generateWithClientKey ==
    /\ pc = "idle"
    /\ \E provider \in ProviderInputs, prompt \in Prompts, apiKey \in ClientKeys :
         LET r == Request("generate-client-key", provider, prompt, FALSE, apiKey) IN
         IF provider = "" \/ apiKey = ""
         THEN Reject(r, Failure(400, "Missing provider or apiKey"))
         ELSE IF provider \in {"openai", "google", "grok"}
         THEN BeginDirect(r, provider, UpstreamCall(ProviderHost(provider), apiKey))
         ELSE Reject(r, Failure(400, "Unknown provider"))

generateWithClientKeySettled ==
    /\ pc = "await" /\ req.ep = "generate-client-key"
    /\ \E o \in Outcomes :
         /\ last' = o
         /\ IF Fetch(o).threw
            THEN Respond(Catch500(Fetch(o).err))
            ELSE IF ~o.json
            THEN Respond(Catch500(SyntaxErr))
            ELSE IF ~Ok(o)
            THEN Respond(Failure(500, "upstream error body"))
            ELSE Respond(Response(200, "text", "", o.text, ""))
    /\ UNCHANGED retryVars

----------------------------------------------------------------------------
(* POST /api/generate with server-side keys (server.js, server2)            *)

cleanProvider(p) ==
    LET v == toLowerCase(p)
    IN IF v = "openai" \/ v = "google" \/ v = "grok" THEN v ELSE "openai"

pickEnvKey(provider) ==
    IF provider = "openai" THEN env["OPENAI_API_KEY"]
    ELSE IF provider = "google" THEN env["GOOGLE_API_KEY"]
    ELSE IF provider = "grok" THEN env["XAI_API_KEY"]
    ELSE ""

generateServer2 ==
    /\ pc = "idle"
    /\ \E provider \in ProviderInputs, prompt \in Prompts, apiKey \in ClientKeys :
         LET r == Request("generate-server2", provider, prompt, FALSE, apiKey)
             P == cleanProvider(provider)
         IN
         IF pickEnvKey(P) = ""
         THEN Reject(r, Failure(400, "Server missing API key env for provider"))
         ELSE BeginDirect(r, P, UpstreamCall(ProviderHost(P), pickEnvKey(P)))

\* callOpenAI / callGemini / callGrok, then JSON.parse(content)
generateServer2Settled ==
    /\ pc = "await" /\ req.ep = "generate-server2"
    /\ \E o \in Outcomes :
         /\ last' = o
         /\ IF Fetch(o).threw
            THEN Respond(Catch500(Fetch(o).err))
            ELSE IF ~Ok(o)
            THEN Respond(Catch500(Err(0, 0, IF o.emsg # "" THEN o.emsg ELSE "provider error (status)")))
            ELSE IF JSONParses(o.text)
            THEN Respond(Response(200, "json", "", o.text, ""))
            ELSE Respond(Response(200, "raw", "Model did not return valid JSON", o.text, ""))
    /\ UNCHANGED retryVars

----------------------------------------------------------------------------
(* POST /api/generate, unified JSON generator (server.js, second server)    *)

StartsWith(q, pre) == Len(q) >= Len(pre) /\ SubSeq(q, 1, Len(pre)) = pre
EndsWith(q, suf) ==
    Len(q) >= Len(suf) /\ SubSeq(q, Len(q) - Len(suf) + 1, Len(q)) = suf

\* the backtick character
Backtick == "backtick"

Fence == <<Backtick, Backtick, Backtick>>
FenceJson == Fence \o <<"j", "s", "o", "n">>

\* .replace(/^```json\s*/i, "")
StripFenceJson(q) ==
    IF StartsWith(q, FenceJson)
    THEN TrimStart(SubSeq(q, Len(FenceJson) + 1, Len(q)))
    ELSE q

\* .replace(/^```\s*/i, "")
StripFenceOpen(q) ==
    IF StartsWith(q, Fence) THEN TrimStart(SubSeq(q, Len(Fence) + 1, Len(q))) ELSE q

\* .replace(/```\s*$/i, "")
StripFenceClose(q) ==
    IF EndsWith(TrimEnd(q), Fence)
    THEN SubSeq(q, 1, Len(TrimEnd(q)) - Len(Fence))
    ELSE q

stripCodeFences(q) ==
    IF q = <<>> THEN <<>>
    ELSE trim(StripFenceClose(StripFenceOpen(StripFenceJson(q))))

\* const { provider="openai" } = req.body
unifiedProvider(r) == IF r.provider = "" THEN "openai" ELSE r.provider

\* if(!user)
MissingUser(r) == r.prompt = <<>>

generateUnified ==
    /\ pc = "idle"
    /\ \E provider \in ProviderInputs, prompt \in Prompts, apiKey \in ClientKeys :
         LET r == Request("generate-unified", provider, prompt, FALSE, apiKey)
             P == unifiedProvider(r)
         IN
         IF MissingUser(r)
         THEN Reject(r, Failure(400, "Missing 'user' prompt"))
         ELSE IF P = "openai"
         THEN IF OpenAIKey = ""
              THEN Reject(r, Failure(500, "OPENAI_API_KEY is not set"))
              ELSE BeginDirect(r, "openai", UpstreamCall("api.openai.com", OpenAIKey))
         ELSE IF P = "google"
         THEN IF env["GOOGLE_API_KEY"] = ""
              THEN Reject(r, Failure(500, "GOOGLE_API_KEY is not set"))
              ELSE BeginDirect(r, "google",
                       UpstreamCall("generativelanguage.googleapis.com", env["GOOGLE_API_KEY"]))
         ELSE IF P = "grok"
         THEN IF env["XAI_API_KEY"] = ""
              THEN Reject(r, Failure(500, "XAI_API_KEY is not set"))
              ELSE BeginDirect(r, "grok", UpstreamCall("api.x.ai", env["XAI_API_KEY"]))
         ELSE Reject(r, Failure(400, "Unsupported provider"))

\* const cleaned = stripCodeFences(content); JSON.parse(cleaned) or { raw }
UnifiedAnswer(content) ==
    IF JSONParses(stripCodeFences(content))
    THEN Response(200, "json", "", stripCodeFences(content), "")
    ELSE Response(200, "raw", "", stripCodeFences(content), "")

\* the openai branch: client.chat.completions.create
generateUnifiedSdkSettled ==
    /\ pc = "await" /\ req.ep = "generate-unified" /\ stage = "openai"
    /\ \E o \in Outcomes :
         /\ last' = o
         /\ IF Sdk(o).threw
            THEN Respond(Catch500(Sdk(o).err))
            ELSE Respond(UnifiedAnswer(o.text))
    /\ UNCHANGED retryVars

\* the google and grok branches: fetch, await r.json(), if(!r.ok) 500
generateUnifiedFetchSettled ==
    /\ pc = "await" /\ req.ep = "generate-unified" /\ stage \in {"google", "grok"}
    /\ \E o \in Outcomes :
         /\ last' = o
         /\ IF Fetch(o).threw
            THEN Respond(Catch500(Fetch(o).err))
            ELSE IF ~o.json
            THEN Respond(Catch500(SyntaxErr))
            ELSE IF ~Ok(o)
            THEN Respond(Failure(500, IF o.emsg # "" THEN o.emsg ELSE "provider error"))
            ELSE Respond(UnifiedAnswer(o.text))
    /\ UNCHANGED retryVars

----------------------------------------------------------------------------
(* The backoff of a wrapped upstream call elapsed: makeCall() runs again.   *)

\* the catch block of the handler that is waiting
HandlerCatch(ep, err) ==
    IF ep \in {"gpt-prompt", "image-vision"} THEN CatchWithHint(err) ELSE CatchStatus(err)

backoffElapsed ==
    /\ pc = "await" /\ rpc = "sleeping"
    /\ RetryResume
    /\ IF rpc' = "calling"
       THEN /\ upstream' = Append(upstream, upstream[Len(upstream)])
            /\ UNCHANGED <<env, req, pc, stage, res, last, sent, restVars>>
       ELSE /\ Respond(HandlerCatch(req.ep, result'.err))
            /\ UNCHANGED last

----------------------------------------------------------------------------
(* res.json(...) was written and the handler returned: the request and all *)
(* that belonged to it are gone; the process waits for the next request.   *)

responseSent ==
    /\ pc = "done"
    /\ req' = NoReq /\ pc' = "idle" /\ stage' = "" /\ upstream' = <<>>
    /\ res' = NoRes /\ last' = NoOutcome /\ sent' = 0
    /\ RetryReset
    /\ UNCHANGED <<env, restVars>>

----------------------------------------------------------------------------

Init ==
    /\ env \in EnvConfigs
    /\ GatewayIdle
    /\ RetryIdle
    /\ server = "gateway" /\ LimiterIdle /\ HelperIdle /\ ConcIdle

Next ==
    \/ generateGptPrompt
    \/ generateGptPromptSettled
    \/ generateGptPromptBasic
    \/ generateGptPromptBasicSettled
    \/ generateImageVision
    \/ generateImageVisionSettled
    \/ generateImageVisionImageSettled
    \/ generateImageBasic
    \/ generateImageBasicSettled
    \/ generateImageEdit
    \/ generateImageEditSettled
    \/ generateGptPromptMulti
    \/ generateGptPromptMultiSdkSettled
    \/ generateGptPromptMultiFetchSettled
    \/ generateImageMulti
    \/ generateImageMultiSettled
    \/ generateWithClientKey
    \/ generateWithClientKeySettled
    \/ generateServer2
    \/ generateServer2Settled
    \/ generateUnified
    \/ generateUnifiedSdkSettled
    \/ generateUnifiedFetchSettled
    \/ backoffElapsed
    \/ responseSent

Spec == Init /\ [][Next]_vars

----------------------------------------------------------------------------
(* The retry executor on its own: makeCall is any operation, retries any   *)
(* value up to MaxRetries.                                                 *)

RetryValues == {"v"}

RetryErrors ==
    { Err(429, 0, "rate limited a"), Err(429, 0, "rate limited b"),
      Err(0, 429, "rate limited c"), Err(500, 0, "server error"),
      Err(500, 429, "server error, response 429"), Err(0, 0, "socket hang up") }

InitRetry ==
    /\ env \in EnvConfigs
    /\ GatewayIdle
    /\ RetryIdle
    /\ server = "gateway" /\ LimiterIdle /\ HelperIdle /\ ConcIdle

callOpenAIWithRetry ==
    /\ rpc \in {"idle", "returned", "thrown"}
    /\ \E max \in 0..MaxRetries : RetryBegin(max)
    /\ UNCHANGED <<gatewayVars, restVars>>

makeCallReturns ==
    /\ rpc = "calling"
    /\ \E v \in RetryValues : RetryReturn(v)
    /\ UNCHANGED <<gatewayVars, restVars>>

makeCallThrows ==
    /\ rpc = "calling"
    /\ \E err \in RetryErrors : RetryCatch(err)
    /\ UNCHANGED <<gatewayVars, restVars>>

sleepElapsed ==
    /\ rpc = "sleeping"
    /\ RetryResume
    /\ UNCHANGED <<gatewayVars, restVars>>

NextRetry ==
    \/ callOpenAIWithRetry
    \/ makeCallReturns
    \/ makeCallThrows
    \/ sleepElapsed

SpecRetry == InitRetry /\ [][NextRetry]_vars

\* the same executor when every makeCall() settles and every timer fires
RetryStep ==
    \/ makeCallReturns
    \/ makeCallThrows
    \/ sleepElapsed

SpecRetryLive == InitRetry /\ [][NextRetry]_vars /\ WF_vars(RetryStep)

----------------------------------------------------------------------------
(* Claims about the retry executor, checked under SpecRetry.               *)

\* C7: a call that returned after k rate-limited (429) attempts, k <= retries,
\* invoked makeCall exactly k+1 times, returned the success value, and slept
\* exactly k times, 1000 * 2^j ms before retry j (0-based); the counts stay so
\* for as long as the call is in its returned state.
C7_SuccessAfterRateLimits ==
    rpc = "returned" =>
        LET k == Len(raised) IN
        /\ k <= retries
        /\ \A j \in 1..k : EffStatus(raised[j]) = 429
        /\ invoked = k + 1
        /\ result.ok /\ result.value \in RetryValues
        /\ Len(slept) = k
        /\ \A j \in 1..k : slept[j] = 1000 * 2^(j - 1)

C7_Witness ==
    /\ rpc = "returned" /\ retries = 2 /\ Len(raised) = 2
    /\ invoked = 3 /\ slept = <<1000, 2000>> /\ result = Returned("v")

\* C8: when the first attempt fails with a status other than 429, or with no
\* status at all, makeCall was invoked exactly once, nothing was slept and the
\* call has already thrown that error.
C8_NonRateLimitFailsAtOnce ==
    (Len(raised) >= 1 /\ EffStatus(raised[1]) # 429) =>
        /\ rpc = "thrown"
        /\ Len(raised) = 1
        /\ invoked = 1
        /\ slept = <<>>
        /\ result = Failed(raised[1])

C8_Witness ==
    /\ rpc = "thrown" /\ invoked = 1 /\ slept = <<>>
    /\ raised = <<Err(0, 0, "socket hang up")>>
    /\ result = Failed(Err(0, 0, "socket hang up"))

\* C9: a call that ended in failure throws the error of its last attempt,
\* with the same status, response status and message.
C9_LastErrorPropagates ==
    rpc = "thrown" =>
        /\ ~result.ok
        /\ Len(raised) = invoked
        /\ result.err = raised[Len(raised)]

C9_Witness ==
    /\ rpc = "thrown" /\ retries = 2 /\ Len(raised) = 3
    /\ EffStatus(raised[3]) = 429
    /\ raised[1] # raised[3]
    /\ result.err = raised[3]

\* every attempt of the call was rate limited
AllRateLimited == \A j \in 1..Len(raised) : EffStatus(raised[j]) = 429

\* C21: once called, the executor has invoked makeCall at least once and at
\* most retries + 1 times and its loop counter is within 0..retries; a call
\* that failed with 429 on every attempt invoked makeCall exactly
\* retries + 1 times; and every call ends, with the value or with an error.
C21_AttemptsBounded ==
    /\ [](rpc # "idle" => /\ invoked >= 1 /\ invoked <= retries + 1
                          /\ i >= 0 /\ i <= retries)
    /\ [](rpc = "thrown" /\ AllRateLimited => invoked = retries + 1)
    /\ [](rpc = "returned" => result.ok /\ result.value \in RetryValues)
    /\ [](rpc = "thrown" => ~result.ok /\ result.err \in RetryErrors)
    /\ (rpc \in {"calling", "sleeping"} ~> rpc \in {"returned", "thrown"})

C21_Witness ==
    /\ rpc = "thrown" /\ retries = MaxRetries /\ AllRateLimited
    /\ invoked = MaxRetries + 1 /\ i = MaxRetries

RECURSIVE SumOf(_)
SumOf(q) == IF q = <<>> THEN 0 ELSE q[1] + SumOf(Tail(q))

\* C22 (as claimed): a call with retries = 2 whose attempts were all rate
\* limited has slept after each of them, 7000 ms (1 s + 2 s + 4 s) in all,
\* when it surfaces the failure.
C22_WorstCaseBackoffIs7s ==
    (rpc = "thrown" /\ retries = DefaultRetries /\ AllRateLimited
        /\ Len(raised) = DefaultRetries + 1) =>
        /\ Len(slept) = Len(raised)
        /\ SumOf(slept) = 7000

----------------------------------------------------------------------------
(* What the claims about validation speak of: the provider a request        *)
(* selects, the credential that provider needs, and the checks a handler    *)
(* makes before its first upstream call.                                    *)

ServerKeyEps ==
    {"gpt-prompt", "gpt-prompt-basic", "image-vision", "image-basic", "image-edit",
     "gpt-prompt-multi", "image-multi", "generate-server2", "generate-unified"}

ImageEps == {"image-vision", "image-basic", "image-edit", "image-multi"}

ProviderEps ==
    {"gpt-prompt-multi", "image-multi", "generate-server2", "generate-unified",
     "generate-client-key"}

KnownProviders == {"openai", "google", "gemini", "grok", "flow"}

SelectedProvider(r) ==
    CASE r.ep \in {"gpt-prompt-multi", "image-multi"} -> providerOrOpenAI(r)
      [] r.ep = "generate-unified" -> unifiedProvider(r)
      [] r.ep = "generate-server2" -> cleanProvider(r.provider)
      [] r.ep = "generate-client-key" -> r.provider
      [] r.ep = "storyboard" ->
            IF r.provider = "" THEN "openai" ELSE toLowerCase(r.provider)
      [] OTHER -> "openai"

Supported(ep) ==
    CASE ep = "gpt-prompt-multi" -> {"openai", "gemini", "grok", "flow"}
      [] ep \in {"generate-unified", "generate-server2", "generate-client-key"} ->
            {"openai", "google", "grok"}
      [] OTHER -> {"openai"}

\* the environment variable that holds the selected provider's credential
CredentialName(r) ==
    LET P == SelectedProvider(r) IN
    CASE P = "google" -> "GOOGLE_API_KEY"
      [] P = "gemini" -> "GEMINI_API_KEY"
      [] P = "grok" /\ r.ep = "gpt-prompt-multi" -> "GROK_API_KEY"
      [] P = "grok" -> "XAI_API_KEY"
      [] P = "flow" -> "FLOW_API_URL"
      [] OTHER -> "OPENAI_API_KEY"

ProviderFails(r) == SelectedProvider(r) \notin Supported(r.ep)
CredentialFails(r) == ~ProviderFails(r) /\ env[CredentialName(r)] = ""
PromptFails(r) ==
    IF r.ep = "generate-unified" THEN r.prompt = <<>> ELSE trim(r.prompt) = <<>>
ImageFails(r) == ~r.img1

CheckFails(c, r) ==
    CASE c = "provider" -> ProviderFails(r)
      [] c = "prompt" -> PromptFails(r)
      [] c = "image" -> ImageFails(r)
      [] c = "credential" -> CredentialFails(r)

\* the first check of `order` that fails for r, "none" when all pass
RECURSIVE FirstFailing(_, _)
FirstFailing(order, r) ==
    IF order = <<>> THEN "none"
    ELSE IF CheckFails(Head(order), r) THEN Head(order)
    ELSE FirstFailing(Tail(order), r)

\* the error messages by which each check reports its failure
CheckOfError(e) ==
    CASE e \in {"Missing OPENAI_API_KEY", "Missing GEMINI_API_KEY", "Missing GROK_API_KEY",
                "Missing FLOW_API_URL", "OPENAI_API_KEY is not set",
                "GOOGLE_API_KEY is not set", "XAI_API_KEY is not set",
                "Server missing API key env for provider"} -> "credential"
      [] e \in {"Missing soraPrompt", "Missing 'user' prompt"} -> "prompt"
      [] e \in {"Missing img1", "Missing img1 (product reference image)"} -> "image"
      [] e \in {"Unknown provider", "Unsupported provider",
                "Image generation currently supports OpenAI only"} -> "provider"
      [] OTHER -> "other"

\* the order in which each handler makes its checks
HandlerOrder(ep) ==
    CASE ep \in {"gpt-prompt", "gpt-prompt-basic"} -> <<"credential", "prompt">>
      [] ep \in {"image-vision", "image-basic", "image-edit"} ->
            <<"credential", "prompt", "image">>
      [] ep \in {"gpt-prompt-multi", "generate-unified"} ->
            <<"prompt", "provider", "credential">>
      [] ep = "image-multi" -> <<"provider", "credential", "prompt", "image">>
      [] ep = "generate-server2" -> <<"credential">>

\* the order the claim states, cut down to the checks the handler makes
RECURSIVE Restrict(_, _)
Restrict(order, keep) ==
    IF order = <<>> THEN <<>>
    ELSE IF \E k \in 1..Len(keep) : keep[k] = Head(order)
    THEN <<Head(order)>> \o Restrict(Tail(order), keep)
    ELSE Restrict(Tail(order), keep)

ClaimedOrder(ep) ==
    Restrict(<<"provider", "prompt", "image", "credential">>, HandlerOrder(ep))

\* a rejection: answered before any upstream call
Rejected == pc = "done" /\ upstream = <<>>

----------------------------------------------------------------------------
(* Claims about the gateway, checked under Spec.                            *)

\* C1 (as claimed): a request whose prompt is empty, sent to a server whose
\* credential for the selected provider is configured, makes no upstream call
\* and is answered 400.
C1_EmptyPromptIs400 ==
    (/\ pc # "idle"
     /\ req.prompt = <<>>
     /\ ~ProviderFails(req)
     /\ env[CredentialName(req)] # "")
    => /\ upstream = <<>>
       /\ pc = "done" /\ res.status = 400

\* C2 (as claimed): a request that names a provider no server knows, and is
\* otherwise complete, sent to a server with every credential configured,
\* makes no upstream call and is answered 400 with the
\* unknown-provider error.
C2_UnknownProviderIs400 ==
    (/\ pc # "idle"
     /\ req.ep \in ProviderEps
     /\ req.provider # "" /\ toLowerCase(req.provider) \notin KnownProviders
     /\ trim(req.prompt) # <<>> /\ req.img1 = (req.ep \in ImageEps)
     /\ req.apiKey # "" /\ \A n \in EnvNames : env[n] # "")
    => /\ upstream = <<>>
       /\ pc = "done" /\ res.status = 400 /\ CheckOfError(res.error) = "provider"

C4_MissingCredentialIs500 ==
    (/\ pc # "idle"
     /\ req.ep \in ServerKeyEps
     /\ CredentialFails(req)
     /\ ~PromptFails(req)
     /\ (req.ep \in ImageEps => ~ImageFails(req)))
    => /\ upstream = <<>>
       /\ pc = "done" /\ res.status = 500

C6_KeyIsServerKey ==
    \A k \in DOMAIN upstream :
        upstream[k].key =
            (IF CredentialName(req) = "FLOW_API_URL" THEN "" ELSE env[CredentialName(req)])

\* C10 (as claimed): when the last upstream answer of a request was a non-2xx
\* status s, the response carries status s; when the upstream gave no status,
\* the response carries 500.
C10_UpstreamStatusMirrored ==
    (pc = "done" /\ last.k # "") =>
        /\ (last.k = "http" /\ ~Ok(last) => res.status = last.status)
        /\ (last.k = "net" => res.status = 500)

----------------------------------------------------------------------------
(* Claims about what the gateway does with the upstream's answer, checked   *)
(* under Spec.                                                             *)

\* the latest upstream answer was an HTTP response with this status
LastStatus(st) == last.k = "http" /\ last.status = st

\* the latest upstream answer was a 2xx whose body parsed
LastOkBody == last.k = "http" /\ Ok(last) /\ last.json

\* the handlers that call OpenAI for text through the SDK
OpenAITextRequest ==
    /\ req.ep \in {"gpt-prompt", "gpt-prompt-basic", "gpt-prompt-multi", "generate-unified"}
    /\ SelectedProvider(req) = "openai"

\* C11 (as claimed): a request to OpenAI whose last upstream answer was HTTP
\* 429 is answered only after the retry executor has used all its retries
\* (DefaultRetries + 1 upstream calls), with status 429 and the billing/quota
\* hint as its error message.
C11_RateLimitSurfacedWithHint ==
    (pc = "done" /\ OpenAITextRequest /\ LastStatus(429)) =>
        /\ Len(upstream) = DefaultRetries + 1
        /\ res.status = 429
        /\ res.error = RateLimitHint

\* C12 (as claimed): on the Grok and flow branches of the multi-provider
\* prompt handler, once the upstream has answered HTTP 429 the executor is
\* backing off, or has re-issued the request after a backoff, or has used
\* all its retries.
C12_RawHttp429IsRetried ==
    (/\ pc # "idle" /\ req.ep = "gpt-prompt-multi"
     /\ SelectedProvider(req) \in {"grok", "flow"}
     /\ LastStatus(429))
    => \/ rpc = "sleeping"
       \/ rpc = "calling" /\ slept # <<>> /\ Len(upstream) = Len(slept) + 1
       \/ Len(upstream) = DefaultRetries + 1

C14_EmptyTextIs502 ==
    (pc = "done" /\ req.ep \in {"gpt-prompt", "gpt-prompt-basic", "gpt-prompt-multi"}) =>
        /\ (LastOkBody /\ trim(last.text) = <<>> =>
               res.status = 502 /\ res.kind = "error")
        /\ (res.kind = "text" => res.text # <<>>)

\* C17 (as claimed): on the JSON-generation endpoints, when the upstream
\* answered 2xx and the cleaned model text is not JSON, the request is answered
\* 200 with the cleaned text as raw and no error field.
C17_MalformedOutputIsRawSuccess ==
    (/\ pc = "done" /\ req.ep \in {"generate-unified", "generate-server2"}
     /\ LastOkBody /\ ~JSONParses(stripCodeFences(last.text)))
    => /\ res.status = 200
       /\ res.kind = "raw"
       /\ res.text = stripCodeFences(last.text)
       /\ res.error = ""

\* C28: in the two-stage image handler the images.generate call is issued
\* only by the step in which the vision call returned a non-empty
\* description; a request that ends in the vision stage ends with an error
\* status and without any images.generate call, all its upstream calls being
\* attempts of the vision call; and a request issues at most
\* 2 * (retries + 1) upstream calls.
C28_VisionBeforeImage ==
    /\ [][(req'.ep = "image-vision" /\ stage' = "images" /\ stage # "images") =>
            /\ req = req' /\ stage = "vision"
            /\ ~Sdk(last').threw /\ trim(last'.text) # <<>>
            /\ upstream' = Append(upstream, upstream'[Len(upstream')])]_vars
    /\ [][(req.ep = "image-vision" /\ stage = "vision" /\ pc' = "done") =>
            /\ res'.kind = "error" /\ res'.status >= 400
            /\ Sdk(last').threw \/ trim(last'.text) = <<>>
            /\ upstream' = upstream /\ Len(upstream) = invoked'
            /\ invoked' <= DefaultRetries + 1]_vars
    /\ [](req.ep = "image-vision" => Len(upstream) <= 2 * (DefaultRetries + 1))

\* both stages used all their attempts: six upstream calls, the last one
\* rate limited as well
C28_Witness ==
    /\ req.ep = "image-vision" /\ pc = "done"
    /\ Len(upstream) = 2 * (DefaultRetries + 1)
    /\ res.status = 429

----------------------------------------------------------------------------
(* The functions that turn an upstream answer into the text and the JSON    *)
(* value handed to the caller, each on its own.                             *)

MaxParts == 2

\* one element of candidates[0].content.parts: with a text, or without one
\* (inlineData, functionCall, ...)
Part(has, text) == [has |-> has, text |-> text]

GeminiParts ==
    SeqsUpTo({Part(FALSE, <<>>), Part(TRUE, <<"A">>), Part(TRUE, <<"B">>)}, MaxParts)

\* parts.map(p => p?.text || "").join("")   (server.js:80 and 389; part_004:108
\* joins p.text itself, where join writes undefined as "")
RECURSIVE geminiJoinedText(_)
geminiJoinedText(parts) ==
    IF parts = <<>> THEN <<>>
    ELSE (IF Head(parts).has THEN Head(parts).text ELSE <<>>)
            \o geminiJoinedText(Tail(parts))

\* data.candidates?.[0]?.content?.parts?.[0]?.text || ""   (part_003:251)
geminiFirstPartText(parts) ==
    IF parts # <<>> /\ parts[1].has THEN parts[1].text ELSE <<>>

\* the first position at or after p where a fence starts, 0 when there is none
RECURSIVE FenceFrom(_, _)
FenceFrom(q, p) ==
    IF p + Len(Fence) - 1 > Len(q) THEN 0
    ELSE IF SubSeq(q, p, p + Len(Fence) - 1) = Fence THEN p
    ELSE FenceFrom(q, p + 1)

\* t.match(/```(?:json)?\s*([\s\S]*?)\s*```/i): the leftmost opening fence that
\* has a closing fence after it, the tag json when it follows, white space,
\* then everything up to the first closing fence.  found: there is a match;
\* group: capture 1, trimmed
FencedMatch(t) ==
    LET open == FenceFrom(t, 1)
        tagged == /\ open # 0 /\ open + 6 <= Len(t)
                  /\ SubSeq(t, open + 3, open + 6) = <<"j", "s", "o", "n">>
                  /\ FenceFrom(t, open + 7) # 0
        from == IF open = 0 THEN 0 ELSE SkipWs(t, IF tagged THEN open + 7 ELSE open + 3)
        close == IF open = 0 THEN 0 ELSE FenceFrom(t, from)
    IN IF open = 0 \/ close = 0
       THEN [found |-> FALSE, group |-> <<>>]
       ELSE [found |-> TRUE, group |-> trim(SubSeq(t, from, close - 1))]

\* raw.lastIndexOf(c), 0 when there is none
RECURSIVE LastIndexOf(_, _)
LastIndexOf(q, c) ==
    IF q = <<>> THEN 0
    ELSE IF q[Len(q)] = c THEN Len(q)
    ELSE LastIndexOf(SubSeq(q, 1, Len(q) - 1), c)

\* extractJSONObject(text) of the proxy: the parsed object, or null (ok = FALSE)
extractJSONObject(text) ==
    LET t == trim(text)
        fenced == FencedMatch(t)
        raw == IF fenced.found THEN fenced.group ELSE t
        first == IndexFrom(raw, "{", 1)
        lastBrace == LastIndexOf(raw, "}")
        slice == SubSeq(raw, first, lastBrace)
    IN IF t = <<>> \/ first = 0 \/ lastBrace = 0 \/ lastBrace <= first
       THEN [fn |-> "extractJSONObject", ok |-> FALSE, raw |-> <<>>, val |-> JNone]
       ELSE [fn |-> "extractJSONObject", ok |-> JSONparse(slice).ok, raw |-> slice,
             val |-> JSONparse(slice).val]

\* const cleaned = stripCodeFences(content);
\* try{ res.json(JSON.parse(cleaned)) }catch(_){ res.json({ raw: cleaned }) }
cleanAndParse(content) ==
    LET cleaned == stripCodeFences(content)
    IN [fn |-> "stripCodeFences", ok |-> JSONparse(cleaned).ok, raw |-> cleaned,
        val |-> JSONparse(cleaned).val]

\* the JSON documents a model is asked for
JsonDocs ==
    { JNum(<<"1">>),
      JStr(<<"x">>),
      JObj(<<>>),
      JObj(<<JMember(<<"a">>, JNum(<<"1">>))>>),
      JObj(<<JMember(<<"a">>, JStr(Fence))>>),
      JObj(<<JMember(<<"a">>, JArr(<<JObj(<<>>), JNum(<<"1">>)>>))>>),
      JArr(<<JObj(<<>>), JObj(<<>>)>>) }

\* how a model writes a document: bare, in a ```json fence, in a ``` fence
Wraps == {"bare", "json", "fence"}

\* white space a model puts around its answer
Pads == {"", "before", "after"}

Wrapped(doc, wrap) ==
    CASE wrap = "bare" -> doc
      [] wrap = "json" -> FenceJson \o <<"\n">> \o doc \o <<"\n">> \o Fence
      [] wrap = "fence" -> Fence \o <<"\n">> \o doc \o <<"\n">> \o Fence

Padded(q, pad) ==
    CASE pad = "" -> q
      [] pad = "before" -> <<"\n">> \o q
      [] pad = "after" -> q \o <<" ", "\n">>

\* the model text for document v
ModelText(v, wrap, pad) == Padded(Wrapped(stringify(v), wrap), pad)

\* the values a key of the flow's JSON answer may hold: absent, "", white
\* space, a text, a text with white space before it
FlowField(c) ==
    { Part(FALSE, <<>>), Part(TRUE, <<>>), Part(TRUE, <<" ">>), Part(TRUE, <<c>>),
      Part(TRUE, <<" ", c>>) }

\* a ?? b: b only when a is absent
OrElsePresent(p, q) == IF p.has THEN p ELSE q

\* a || b for strings: b when a is undefined or ""
OrElse(p, q) == IF p.has /\ p.text # <<>> THEN p ELSE q

\* text = (j.text || j.answer || j.result || "").trim();   j = <<text, answer, result>>
flowText(j) ==
    trim(OrElse(OrElse(OrElse(j[1], j[2]), j[3]), Part(TRUE, <<>>)).text)

HelperArgs ==
    { [of |-> "parts", parts |-> ps, v |-> JNone, wrap |-> "", pad |-> "", text |-> <<>>,
       j |-> <<>>] : ps \in GeminiParts }
    \cup
    { [of |-> "text", parts |-> <<>>, v |-> v, wrap |-> w, pad |-> pd,
       text |-> ModelText(v, w, pd), j |-> <<>>] : v \in JsonDocs, w \in Wraps, pd \in Pads }
    \cup
    { [of |-> "flow", parts |-> <<>>, v |-> JNone, wrap |-> "", pad |-> "", text |-> <<>>,
       j |-> <<t, a, r>>] :
        t \in FlowField("t"), a \in FlowField("a"), r \in FlowField("r") }

InitHelpers ==
    /\ env \in EnvConfigs
    /\ GatewayIdle
    /\ RetryIdle
    /\ LimiterIdle /\ ConcIdle
    /\ server = "lib"
    /\ arg \in HelperArgs
    /\ ret = NoRet

Returns(r) ==
    /\ ret' = r
    /\ UNCHANGED <<gatewayVars, retryVars, server, limiterVars, arg, concVars>>

\* callGemini of server.js and of the proxy, the google branch of the unified handler
callGeminiText ==
    /\ server = "lib" /\ ret = NoRet /\ arg.of = "parts"
    /\ Returns([fn |-> "callGemini", ok |-> TRUE, raw |-> geminiJoinedText(arg.parts),
                val |-> JNone])

\* the google branch of POST /api/generate that takes the caller's key
googleBranchText ==
    /\ server = "lib" /\ ret = NoRet /\ arg.of = "parts"
    /\ Returns([fn |-> "generate (google)", ok |-> TRUE,
                raw |-> geminiFirstPartText(arg.parts), val |-> JNone])

\* the end of the unified POST /api/generate
unifiedCleanAndParse ==
    /\ server = "lib" /\ ret = NoRet /\ arg.of = "text"
    /\ Returns(cleanAndParse(arg.text))

\* parsed_json of POST /api/storyboard
storyboardExtract ==
    /\ server = "lib" /\ ret = NoRet /\ arg.of = "text"
    /\ Returns(extractJSONObject(arg.text))

flowBranchText ==
    /\ server = "lib" /\ ret = NoRet /\ arg.of = "flow"
    /\ Returns([fn |-> "flowText", ok |-> TRUE, raw |-> flowText(arg.j), val |-> JNone])

NextHelpers ==
    \/ flowBranchText
    \/ callGeminiText
    \/ googleBranchText
    \/ unifiedCleanAndParse
    \/ storyboardExtract

SpecHelpers == InitHelpers /\ [][NextHelpers]_vars

----------------------------------------------------------------------------
(* Claims about those functions, checked under SpecHelpers.                 *)

\* the texts of the parts in array order, a part without text counting as ""
RECURSIVE PartsInOrder(_, _)
PartsInOrder(parts, k) ==
    IF k > Len(parts) THEN <<>>
    ELSE (IF parts[k].has THEN parts[k].text ELSE <<>>) \o PartsInOrder(parts, k + 1)

\* C15 (as claimed): the text a Gemini adapter returns is the concatenation of
\* the texts of all parts of candidates[0].content, in array order.
C15_GeminiTextIsAllParts ==
    ret.fn \in {"callGemini", "generate (google)"} =>
        ret.raw = PartsInOrder(arg.parts, 1)

\* C16 (as claimed): for a model text that, once trimmed, is a JSON document
\* in a fenced block (tagged json or not), the extractor of the unified
\* generator returns the parsed document, and raw is the text between the
\* fences.
C16_FencedJsonIsParsed ==
    (ret.fn = "stripCodeFences" /\ arg.wrap \in {"json", "fence"}) =>
        /\ ret.ok
        /\ ret.val = arg.v
        /\ ret.raw = stringify(arg.v)

\* C18 (as claimed): when the model text is the serialization of an object v,
\* bare or in a ```json fence, the parsed value the gateway returns equals v.
C18_RoundTrip ==
    (/\ ret.fn \in {"stripCodeFences", "extractJSONObject"}
     /\ arg.v.t = "obj" /\ arg.wrap \in {"bare", "json"} /\ arg.pad = "")
    => ret.ok /\ ret.val = arg.v

\* the model text without its fence, as extractJSONObject takes it
FenceStripped(text) ==
    LET t == trim(text) IN
    IF FencedMatch(t).found THEN FencedMatch(t).group ELSE t

\* C25 (as claimed): when the fence-stripped model text is valid JSON, an
\* object, an array or a scalar, extractJSONObject returns the strict parse
\* of that text; the slice from the first { to the last } is a fallback.
C25_StrictParseFirst ==
    (ret.fn = "extractJSONObject" /\ JSONparse(FenceStripped(arg.text)).ok)
    => ret.ok /\ ret.val = JSONparse(FenceStripped(arg.text)).val

\* the keys of the flow's answer that hold a non-empty value, by position
\* in the order text, answer, result
Populated(j) == { k \in 1..Len(j) : j[k].has /\ j[k].text # <<>> }

\* C26: the text of the flow adapter is the (trimmed) value of the first of
\* the keys text, answer, result that holds a non-empty value, and it is
\* empty when none of them does.
C26_FlowFirstPopulatedKey ==
    ret.fn = "flowText" =>
        IF Populated(arg.j) = {} THEN ret.raw = <<>>
        ELSE LET k == CHOOSE m \in Populated(arg.j) : \A n \in Populated(arg.j) : m <= n
             IN ret.raw = trim(arg.j[k].text)

\* text is "", answer is absent, result holds the text
C26_Witness ==
    /\ ret.fn = "flowText"
    /\ arg.j[1] = Part(TRUE, <<>>) /\ ~arg.j[2].has /\ arg.j[3] = Part(TRUE, <<" ", "r">>)
    /\ ret.raw = <<"r">>

----------------------------------------------------------------------------
(* The zero-dependency proxy (part_004): POST /api/storyboard behind an     *)
(* in-memory rate limit.  Requests arrive at instants half a window apart.  *)

\* const windowMs = 60_000;
windowMs == 60000

\* const max = 60;   (60 req/min/ip)
maxPerWindow == 60

\* the clock is read at multiples of half a window
Tick == windowMs \div 2

MaxTicks == 3
MaxCount == 62

\* const v = hits.get(ip) || { count: 0, ts: now };
HitOf(ip) == IF hits[ip].has THEN hits[ip] ELSE [has |-> TRUE, count |-> 0, ts |-> now]

\* a counter that only counts the requests it lets through
CountedAdmitted(ip) ==
    LET v == HitOf(ip)
        w == IF now - v.ts > windowMs THEN [v EXCEPT !.count = 0, !.ts = now] ELSE v
    IN IF w.count < maxPerWindow THEN [w EXCEPT !.count = w.count + 1] ELSE w

\* if (now - v.ts > windowMs) { v.count = 0; v.ts = now; }   v.count += 1;
Counted(ip) ==
    LET v == HitOf(ip)
        w == IF now - v.ts > windowMs THEN [v EXCEPT !.count = 0, !.ts = now] ELSE v
    IN [w EXCEPT !.count = w.count + 1]

\* a limit that lets one request more through
AdmitsOneMore(ip) == Counted(ip).count <= maxPerWindow + 1

\* rateLimit(req, res) returns true
Admits(ip) == Counted(ip).count <= maxPerWindow

\* hits.set(ip, v)
rateLimit(ip) == hits' = [hits EXCEPT ![ip] = Counted(ip)]

\* the record of what rateLimit let through, kept when it runs on its own
LetThrough(ip) ==
    admitted' = IF Admits(ip)
                THEN [admitted EXCEPT ![ip] = <<@[1], @[2] + 1>>]
                ELSE admitted

\* half a window passes
clockTick ==
    /\ server = "proxy" /\ pc = "idle"
    /\ now < MaxTicks * Tick
    /\ now' = now + Tick
    /\ admitted' = [ip \in Callers |-> <<admitted[ip][2], 0>>]
    /\ UNCHANGED <<gatewayVars, retryVars, server, hits, helperVars, concVars>>

\* body.user as typed by the caller
StoryUsers == {<<>>, <<"p">>}

\* send(res, status, obj) before any await
ProxyReject(r, response) ==
    /\ req' = r /\ res' = response /\ pc' = "done" /\ sent' = 1
    /\ stage' = "" /\ upstream' = <<>> /\ last' = NoOutcome
    /\ UNCHANGED <<env, retryVars, server, now, admitted, helperVars, concVars>>

\* result = await callOpenAI / callGemini / callGrok: the fetch is issued
ProxyFetch(r, P, n) ==
    IF env[n] = ""
    THEN ProxyReject(r, Failure(500, "Missing API key (set in Render env vars)"))
    ELSE /\ req' = r /\ res' = NoRes /\ pc' = "await" /\ sent' = 0
         /\ stage' = P /\ upstream' = <<UpstreamCall(ProviderHost(P), env[n])>>
         /\ last' = NoOutcome
         /\ UNCHANGED <<env, retryVars, server, now, admitted, helperVars, concVars>>

\* POST /api/storyboard up to its first await
storyboard ==
    /\ server = "proxy" /\ pc = "idle"
    /\ \E ip \in Callers, provider \in ProviderInputs, user \in StoryUsers,
          validBody \in BOOLEAN :
         LET r == IF validBody THEN Request("storyboard", provider, user, FALSE, "")
                  ELSE Request("storyboard", "", <<>>, FALSE, "")
             P == IF r.provider = "" THEN "openai" ELSE toLowerCase(r.provider)
         IN
         /\ Counted(ip).count <= MaxCount
         /\ rateLimit(ip)
         /\ IF ~Admits(ip)
            THEN ProxyReject(r, Failure(429, "Rate limit exceeded"))
            ELSE IF ~validBody
            THEN ProxyReject(r, Failure(500, "Invalid JSON body"))
            ELSE IF user = <<>>
            THEN ProxyReject(r, Failure(400, "Missing 'user' prompt"))
            ELSE IF P = "openai" THEN ProxyFetch(r, P, "OPENAI_API_KEY")
            ELSE IF P = "google" THEN ProxyFetch(r, P, "GOOGLE_API_KEY")
            ELSE IF P = "grok" THEN ProxyFetch(r, P, "XAI_API_KEY")
            ELSE ProxyReject(r, Failure(400, "Unknown provider (use openai/google/grok)"))

\* the fetch settled: data = await r.json().catch(() => ({})), if(!r.ok) throw,
\* extractJSONObject(result.text), send
storyboardSettled ==
    /\ server = "proxy" /\ pc = "await" /\ req.ep = "storyboard"
    /\ \E o \in Outcomes :
         /\ last' = o
         /\ res' = IF Fetch(o).threw THEN Failure(500, Fetch(o).err.message)
                   ELSE IF ~Ok(o)
                   THEN Failure(500, IF o.json /\ o.emsg # "" THEN o.emsg ELSE "API error")
                   ELSE Response(200, IF extractJSONObject(o.text).ok THEN "json" ELSE "text",
                                 "", o.text, "")
    /\ sent' = sent + 1 /\ pc' = "done" /\ stage' = ""
    /\ UNCHANGED <<env, req, upstream, retryVars, restVars>>

\* the proxy process has started
InitProxy ==
    /\ env \in EnvConfigs
    /\ GatewayIdle
    /\ RetryIdle
    /\ server = "proxy" /\ LimiterIdle /\ HelperIdle /\ ConcIdle

----------------------------------------------------------------------------
(* The rate limit on its own: rateLimit is called for the requests of a     *)
(* caller as they arrive, at any instants.                                  *)

rateLimitCalled ==
    /\ server = "proxy"
    /\ \E ip \in Callers :
         /\ Counted(ip).count <= MaxCount
         /\ rateLimit(ip)
         /\ LetThrough(ip)
    /\ UNCHANGED <<gatewayVars, retryVars, server, now, helperVars, concVars>>

NextLimiter ==
    \/ rateLimitCalled
    \/ clockTick

SpecLimiter == InitProxy /\ [][NextLimiter]_vars

\* C20 (as claimed): for every caller, the requests let through at two
\* instants half a window (30 s) apart, which lie in one rolling 60-second
\* interval, are at most 60 together.
C20_RollingWindowLimit ==
    \A ip \in Callers : admitted[ip][1] + admitted[ip][2] <= maxPerWindow

----------------------------------------------------------------------------
(* Both servers, each upstream call returning in the end: a pending        *)
(* continuation of a handler (the settling of an awaited call, the timer   *)
(* of a backoff) is run by the event loop.  The clock of the rate limit    *)
(* stands still here; its resets are in SpecLimiter.                       *)

InitLive ==
    /\ env \in EnvConfigs
    /\ GatewayIdle
    /\ RetryIdle
    /\ server \in {"gateway", "proxy"}
    /\ LimiterIdle /\ HelperIdle /\ ConcIdle

gatewayStep == server = "gateway" /\ Next

storyboardDone == server = "proxy" /\ responseSent

NextLive ==
    \/ gatewayStep
    \/ storyboard
    \/ storyboardSettled
    \/ storyboardDone

\* what the event loop runs for a request that is waiting
Continuation == pc = "await" /\ NextLive

SpecLive == InitLive /\ [][NextLive]_vars /\ WF_vars(Continuation)

Envelopes == {"error", "text", "image", "json", "raw"}

----------------------------------------------------------------------------
(* Several calls of callWithRetry in flight together.  Handlers of          *)
(* different requests run interleaved at their awaits; lastErr and i are    *)
(* locals of each call and every sleep is a timer of its own.               *)

\* the error the operation of call c may throw: a rate limit or another failure
OpMessage(c) == CASE c = 1 -> "first operation failed"
                  [] c = 2 -> "second operation failed"
                  [] OTHER -> "another operation failed"

OpErrors(c) == { Err(429, 0, OpMessage(c)), Err(500, 0, OpMessage(c)) }

Event(kind, err) == [kind |-> kind, err |-> err]

\* what the loop of call c reads: a loop counter kept outside the function
LocalsShared(c) == [calls[c] EXCEPT !.i = calls[1].i]

\* what the loop of call c reads: its own lastErr, i and retries
Locals(c) == calls[c]

\* callWithRetry(makeCall, retries) is entered
callWithRetry(c) ==
    /\ calls[c].rpc \in {"idle", "returned", "thrown"}
    /\ \E max \in 0..MaxRetries :
         calls' = [calls EXCEPT ![c] =
                     [retries |-> max, i |-> 0, invoked |-> 1, slept |-> <<>>,
                      raised |-> <<>>, rpc |-> "calling", result |-> NoResult,
                      events |-> <<>>]]
    /\ UNCHANGED <<gatewayVars, retryVars, server, limiterVars, helperVars, conns, aborted>>

\* try{ return await makeCall(); }
opReturns(c) ==
    /\ calls[c].rpc = "calling"
    /\ \E v \in RetryValues :
         calls' = [calls EXCEPT ![c] =
                     [Locals(c) EXCEPT !.rpc = "returned", !.result = Returned(v),
                                       !.events = Append(@, Event("returned", NoErr))]]
    /\ UNCHANGED <<gatewayVars, retryVars, server, limiterVars, helperVars, conns, aborted>>

\* catch(err){ lastErr = err; ... sleep and continue, or throw err }
opThrows(c) ==
    /\ calls[c].rpc = "calling"
    /\ \E err \in OpErrors(c) :
         LET k == Locals(c)
             rs == Append(k.raised, err)
             ev == Append(k.events, Event("threw", err))
         IN calls' = [calls EXCEPT ![c] =
                IF ShouldRetry(err, k.i, k.retries)
                THEN [k EXCEPT !.raised = rs, !.events = ev, !.rpc = "sleeping",
                               !.slept = Append(@, Backoff(k.i))]
                ELSE [k EXCEPT !.raised = rs, !.events = ev, !.rpc = "thrown",
                               !.result = Failed(Thrown(rs))]]
    /\ UNCHANGED <<gatewayVars, retryVars, server, limiterVars, helperVars, conns, aborted>>

\* the timer of the call's sleep fired: continue; i++; next makeCall() or throw lastErr
timerFires(c) ==
    /\ calls[c].rpc = "sleeping"
    /\ LET k == Locals(c)
           ev == Append(k.events, Event("timer", NoErr))
       IN calls' = [calls EXCEPT ![c] =
              IF k.i + 1 <= k.retries
              THEN [k EXCEPT !.i = k.i + 1, !.events = ev, !.rpc = "calling",
                             !.invoked = @ + 1]
              ELSE [k EXCEPT !.i = k.i + 1, !.events = ev, !.rpc = "thrown",
                             !.result = Failed(k.raised[Len(k.raised)])]]
    /\ UNCHANGED <<gatewayVars, retryVars, server, limiterVars, helperVars, conns, aborted>>

callEntered == \E c \in CallIds : callWithRetry(c)
operationReturned == \E c \in CallIds : opReturns(c)
operationThrew == \E c \in CallIds : opThrows(c)
sleepTimerFired == \E c \in CallIds : timerFires(c)

NextCalls ==
    \/ callEntered
    \/ operationReturned
    \/ operationThrew
    \/ sleepTimerFired

\* the process has started with every variable of its environment set
InitCalls ==
    /\ env = [n \in EnvNames |-> Secret(n)]
    /\ GatewayIdle
    /\ RetryIdle
    /\ server = "gateway" /\ LimiterIdle /\ HelperIdle /\ ConcIdle

SpecCalls == InitCalls /\ [][NextCalls]_vars

IsThrow(e) == e.kind = "threw"
IsTimer(e) == e.kind = "timer"

\* C23: whatever the interleaving, the state of every call in flight is what
\* the outcomes of its own operation and its own timers make it: its loop
\* counter is the number of its sleeps that elapsed, its errors are those its
\* own operation threw, in order, its delays are 1000 * 2^j ms for its own
\* retry j, and its result is its own value or the last error of its own
\* operation.
C23_CallsAreIndependent ==
    \A c \in CallIds :
        LET k == calls[c]
            threw == SelectSeq(k.events, IsThrow)
            timers == Len(SelectSeq(k.events, IsTimer))
            sleeps == timers + (IF k.rpc = "sleeping" THEN 1 ELSE 0)
        IN k.rpc # "idle" =>
            /\ k.i = timers
            /\ k.invoked = timers + 1
            /\ k.raised = [j \in 1..Len(threw) |-> threw[j].err]
            /\ \A j \in 1..Len(k.raised) : k.raised[j] \in OpErrors(c)
            /\ k.slept = [j \in 1..sleeps |-> 1000 * 2^(j - 1)]
            /\ k.rpc = "thrown" => k.result = Failed(threw[Len(threw)].err)
            /\ k.rpc = "returned" => k.result.ok

\* one call sleeps before its second retry while another, entered with it,
\* has returned after one retry
C23_Witness ==
    /\ calls[1].rpc = "sleeping" /\ Len(calls[1].slept) = 2
    /\ calls[2].rpc = "returned" /\ calls[2].i = 1 /\ calls[2].slept = <<1000>>

----------------------------------------------------------------------------
(* The proxy with several requests of a caller in flight together, inside   *)
(* one window.  rateLimit runs from its first line to its return before the *)
(* handler's first await; handlers interleave at `await readJSON(req)` and  *)
(* at the await of the provider call.  Requests in the same position of the *)
(* handler are counted, not told apart.                                     *)

InFlight(ip) == conns[ip].reading + conns[ip].calling

Passed(ip) == InFlight(ip) + conns[ip].answered + conns[ip].rejected

\* a request arrives: rateLimit(req, res), then the handler awaits the body
requestArrives ==
    /\ server = "proxy"
    /\ \E ip \in Callers :
         /\ Counted(ip).count <= MaxCount
         /\ InFlight(ip) < MaxInFlight
         /\ rateLimit(ip)
         /\ conns' = [conns EXCEPT ![ip] =
                        IF Admits(ip) THEN [@ EXCEPT !.reading = @ + 1]
                        ELSE [@ EXCEPT !.rejected = @ + 1]]
    /\ UNCHANGED <<gatewayVars, retryVars, server, now, admitted, helperVars, calls, aborted>>

\* readJSON settled: the request is answered (bad body, no user, unknown
\* provider, missing key) or its provider call is issued
bodyRead ==
    /\ server = "proxy"
    /\ \E ip \in Callers, goesOn \in BOOLEAN :
         /\ conns[ip].reading > 0
         /\ conns' = [conns EXCEPT ![ip] =
                        IF goesOn
                        THEN [@ EXCEPT !.reading = @ - 1, !.calling = @ + 1]
                        ELSE [@ EXCEPT !.reading = @ - 1, !.answered = @ + 1]]
    /\ UNCHANGED <<gatewayVars, retryVars, server, limiterVars, helperVars, calls, aborted>>

\* the provider call settled and the request is answered
providerSettled ==
    /\ server = "proxy"
    /\ \E ip \in Callers :
         /\ conns[ip].calling > 0
         /\ conns' = [conns EXCEPT ![ip] = [@ EXCEPT !.calling = @ - 1, !.answered = @ + 1]]
    /\ UNCHANGED <<gatewayVars, retryVars, server, limiterVars, helperVars, calls, aborted>>

NextConns ==
    \/ requestArrives
    \/ bodyRead
    \/ providerSettled

SpecConns == InitProxy /\ [][NextConns]_vars

\* C24: inside one window, however the handlers of a caller's requests
\* interleave, the stored count is the number n of the caller's requests that
\* have passed through rateLimit, and the number of them answered 429 is
\* max(0, n - 60).
C24_NoLostIncrement ==
    \A ip \in Callers :
        LET n == Passed(ip) IN
        /\ (IF hits[ip].has THEN hits[ip].count ELSE 0) = n
        /\ conns[ip].rejected = IF n > maxPerWindow THEN n - maxPerWindow ELSE 0

\* 62 requests of one caller, two of them answered 429 while earlier ones
\* still await their body and their provider
C24_Witness ==
    \E ip \in Callers :
        /\ Passed(ip) = maxPerWindow + 2 /\ conns[ip].rejected = 2
        /\ conns[ip].reading >= 1 /\ conns[ip].calling >= 1

----------------------------------------------------------------------------
(* The gateway when the caller may close the inbound connection while its   *)
(* request is being handled.  No handler listens to the request's or the    *)
(* response's "close" event and no call is given an abort signal: the       *)
(* handler goes on as it would have.                                        *)

\* the caller closes the connection of the request that is waiting
callerAborts ==
    /\ server = "gateway" /\ pc = "await" /\ aborted = NotAborted
    /\ aborted' = Len(upstream)
    /\ UNCHANGED <<gatewayVars, retryVars, server, limiterVars, helperVars, calls, conns>>

\* the handler of the closed connection has returned
connectionReleased ==
    /\ server = "gateway" /\ pc = "idle" /\ aborted # NotAborted
    /\ aborted' = NotAborted
    /\ UNCHANGED <<gatewayVars, retryVars, server, limiterVars, helperVars, calls, conns>>

\* the handlers; the next request is taken on a connection that is open
handlerStep == (pc = "idle" => aborted = NotAborted) /\ Next

NextAbort ==
    \/ handlerStep
    \/ callerAborts
    \/ connectionReleased

SpecAbort == Init /\ [][NextAbort]_vars

\* C27 (as claimed): after the caller closed the connection of a request to
\* /api/generate-gpt-prompt, the request's pending backoff sleep is given up:
\* no upstream call is issued for it beyond those issued before the close.
C27_AbortStopsRetries ==
    (aborted # NotAborted /\ pc # "idle" /\ req.ep = "gpt-prompt")
    => Len(upstream) = aborted

----------------------------------------------------------------------------
(* The proxy with its clock: requests of a caller handled one after the     *)
(* other, at any instants.                                                  *)

InitClocked ==
    /\ env = [n \in EnvNames |-> Secret(n)]
    /\ GatewayIdle
    /\ RetryIdle
    /\ server = "proxy" /\ LimiterIdle /\ HelperIdle /\ ConcIdle

NextClocked ==
    \/ storyboard
    \/ storyboardSettled
    \/ storyboardDone
    \/ clockTick

SpecClocked == InitClocked /\ [][NextClocked]_vars

TooMany == Failure(429, "Rate limit exceeded")

\* C29: a request the rate limit rejects is answered 429 at once, whatever
\* its body, with no upstream call; it is counted all the same; a caller
\* with 60 or more requests in its window has every further request
\* rejected while no more than 60 s have passed since the window's start;
\* the first request after that sets the count to 1, starts a new window
\* and is let through.
C29_RejectedUntilReset ==
    /\ [](res = TooMany => pc = "done" /\ upstream = <<>> /\ sent = 1)
    /\ [][\A ip \in Callers :
            (hits'[ip] # hits[ip] /\ hits[ip].has /\ now - hits[ip].ts <= windowMs) =>
                /\ hits'[ip] = [hits[ip] EXCEPT !.count = @ + 1]
                /\ hits[ip].count >= maxPerWindow => res' = TooMany
                /\ hits[ip].count < maxPerWindow => res' # TooMany]_vars
    /\ [][\A ip \in Callers :
            (hits'[ip] # hits[ip] /\ hits[ip].has /\ now - hits[ip].ts > windowMs) =>
                /\ hits'[ip] = [has |-> TRUE, count |-> 1, ts |-> now]
                /\ res' # TooMany]_vars

\* the 62nd request of a window, with a body that does not parse, rejected
\* at the window's last instant
C29_Witness ==
    \E ip \in Callers :
        /\ res = TooMany /\ pc = "done"
        /\ req = Request("storyboard", "", <<>>, FALSE, "")
        /\ hits[ip] = [has |-> TRUE, count |-> maxPerWindow + 2, ts |-> 0]
        /\ now = windowMs

----------------------------------------------------------------------------
(* Dispatch and keys, over the handlers of both servers (SpecLive).         *)

\* the endpoint a provider's adapter is to post to
EndpointOf(P) ==
    CASE P = "openai" -> "api.openai.com"
      [] P \in {"google", "gemini"} -> "generativelanguage.googleapis.com"
      [] P = "grok" -> "api.x.ai"
      [] P = "flow" -> env["FLOW_API_URL"]
      [] OTHER -> ""

\* the provider a key of the environment belongs to
OwnerOf(n) ==
    CASE n = "OPENAI_API_KEY" -> "openai"
      [] n \in {"GOOGLE_API_KEY", "GEMINI_API_KEY"} -> "google"
      [] n \in {"XAI_API_KEY", "GROK_API_KEY"} -> "grok"
      [] OTHER -> "flow"

====
